---- MODULE Spec2Model ----
(***************************************************************************)
(* Bounding boxes of temporal values (meos/src/general/temporal_boxops.c): *)
(* box construction from instants, incremental expansion, equality and     *)
(* ordering dispatch, and the decomposition of a temporal number into at   *)
(* most max_count temporal boxes.                                          *)
(*                                                                         *)
(* C arrays are 0-based; the sequences of this module are 1-based, so the  *)
(* C element a[i] is a[i + 1] here.                                        *)
(***************************************************************************)
EXTENDS Integers, Sequences, FiniteSets, TLC

(***************************************************************************)
(* Bounds of the model                                                     *)
(***************************************************************************)
\* values of the instants of the partitioned temporal numbers: 0..MaxVal
MaxVal == 1
\* largest number of instants of a partitioned sequence
MaxInst == 7
\* largest max_count passed to the partitioning functions (smallest is -1)
MaxCount == 5
\* largest number of sequences of a sequence set
MaxSeqs == 3
\* largest total number of instants of a sequence set
MaxTotal == 6
\* values of the instants given to the box construction: 0..MaxBoxVal
MaxBoxVal == 5
\* largest number of instants given to the box construction
MaxBoxInst == 3
\* largest number of instants of a sequence grown by appending
MaxAppInst == 4
\* values of the instants of a sequence grown by appending: 0..MaxAppVal
MaxAppVal == 2
\* largest distance between the timestamps of two consecutive instants
MaxGap == 2
\* coordinates of the boxes given to the comparison functions: 0..MaxCoord
MaxCoord == 1

(***************************************************************************)
(* Program constants                                                       *)
(***************************************************************************)
INT_MAX == 2147483647

\* the null pointer, as a temporal value without content
NULL == [subtype |-> "NULL"]

(***************************************************************************)
(* Spans and temporal boxes (external collaborators span.c and tbox.c)     *)
(***************************************************************************)
\* span_set: the span with the given bounds and inclusivity flags
span_set(lower, upper, lower_inc, upper_inc) ==
  [lower |-> lower, upper |-> upper,
   lower_inc |-> lower_inc, upper_inc |-> upper_inc]

\* span_expand(s1, s2): s2 expanded with s1 (min of the lower bounds, max of
\* the upper bounds, an inclusive bound wins between two equal bounds)
span_expand(s1, s2) ==
  LET keepl == s2.lower < s1.lower
               \/ (s2.lower = s1.lower /\ (s2.lower_inc \/ ~s1.lower_inc))
      keepu == s2.upper > s1.upper
               \/ (s2.upper = s1.upper /\ (s2.upper_inc \/ ~s1.upper_inc))
  IN [lower |-> IF keepl THEN s2.lower ELSE s1.lower,
      lower_inc |-> IF keepl THEN s2.lower_inc ELSE s1.lower_inc,
      upper |-> IF keepu THEN s2.upper ELSE s1.upper,
      upper_inc |-> IF keepu THEN s2.upper_inc ELSE s1.upper_inc]

\* tbox_expand(box1, box2): box2 expanded with box1, dimension by dimension
tbox_expand(box1, box2) ==
  [box2 EXCEPT !.span = span_expand(box1.span, box2.span),
               !.period = span_expand(box1.period, box2.period)]

(***************************************************************************)
(* Temporal types                                                          *)
(***************************************************************************)
\* a temporal type that is neither alphanumeric, number nor spatial stands
\* for a type code the classification predicates do not recognise
TempTypes == {"T_TBOOL", "T_TFLOAT", "T_TGEOMPOINT", "T_UNKNOWN"}

talpha_type(temptype) == temptype = "T_TBOOL"

tnumber_type(temptype) == temptype = "T_TFLOAT"

tspatial_type(temptype) == temptype = "T_TGEOMPOINT"

Interps == {"DISCRETE", "STEP", "LINEAR"}

\* TSEQUENCE_INST_N(seq, i): the i-th instant (0-based) of a sequence
TSEQUENCE_INST_N(seq, i) == seq.instants[i + 1]

\* TSEQUENCESET_SEQ_N(ss, i): the i-th sequence (0-based) of a sequence set
TSEQUENCESET_SEQ_N(ss, i) == ss.sequences[i + 1]

(***************************************************************************)
(* Boxes of instants and of arrays of instants                             *)
(***************************************************************************)
\* tnumberinst_set_tbox: [v, v] x [t, t], all bounds inclusive, X and T set
tnumberinst_set_tbox(inst) ==
  [span |-> span_set(inst.value, inst.value, TRUE, TRUE),
   period |-> span_set(inst.t, inst.t, TRUE, TRUE),
   flagX |-> TRUE, flagT |-> TRUE]

\* tinstant_set_bbox: the box of an instant by temporal type
tinstant_set_bbox(inst, temptype) ==
  IF talpha_type(temptype)
  THEN span_set(inst.t, inst.t, TRUE, TRUE)
  ELSE tnumberinst_set_tbox(inst)

\* a variant of minmax_step that overwrites the inclusivity of a bound when
\* the value read equals it, instead of or-ing
minmax_step_overwrite(st, value, i, count, upper_inc1) ==
  LET inc == IF i < count - 1 THEN TRUE ELSE upper_inc1
      st1 == IF value <= st.min
             THEN [st EXCEPT !.min = value, !.min_inc = inc]
             ELSE st
  IN IF value >= st.max
     THEN [st1 EXCEPT !.max = value, !.max_inc = inc]
     ELSE st1

\* one iteration of the scan of tnumberinstarr_set_tbox: st is the running
\* [min, max, min_inc, max_inc], i the 0-based index of the instant read
minmax_step(st, value, i, count, upper_inc1) ==
  LET inc == IF i < count - 1 THEN TRUE ELSE upper_inc1
      st1 == IF value <= st.min
             THEN [st EXCEPT !.min = value,
                             !.min_inc = IF value = st.min
                                         THEN st.min_inc \/ inc ELSE inc]
             ELSE st
  IN IF value >= st.max
     THEN [st1 EXCEPT !.max = value,
                      !.max_inc = IF value = st.max
                                  THEN st.max_inc \/ inc ELSE inc]
     ELSE st1

RECURSIVE minmax_scan(_, _, _, _, _)
minmax_scan(instants, i, count, upper_inc1, st) ==
  IF i < count
  THEN minmax_scan(instants, i + 1, count, upper_inc1,
         minmax_step(st, instants[i + 1].value, i, count, upper_inc1))
  ELSE st

\* a variant of degenerate_inc that leaves the flags of the scan
degenerate_inc_kept(st) == st

\* the inclusivity of a value bound when min = max after the scan
degenerate_inc(st) ==
  IF st.min = st.max
  THEN [st EXCEPT !.min_inc = TRUE, !.max_inc = TRUE]
  ELSE st

\* a variant of value_inc that keeps the flag whatever the interpolation
value_inc_kept(interp, inc) == inc

\* the flags the scan starts from: forced inclusive unless linear
value_inc(interp, inc) == IF interp # "LINEAR" THEN TRUE ELSE inc

tnumberinstarr_set_tbox(instants, count, lower_inc, upper_inc, interp) ==
  LET lower_inc1 == value_inc(interp, lower_inc)
      upper_inc1 == value_inc(interp, upper_inc)
      st0 == [min |-> instants[1].value, max |-> instants[1].value,
              min_inc |-> lower_inc1, max_inc |-> lower_inc1]
      st == degenerate_inc(minmax_scan(instants, 1, count, upper_inc1, st0))
  IN [span |-> span_set(st.min, st.max, st.min_inc, st.max_inc),
      period |-> span_set(instants[1].t, instants[count].t,
                          lower_inc, upper_inc),
      flagX |-> TRUE, flagT |-> TRUE]

\* the period flags written at the beginning of the bounding box
set_period_inc(box, temptype, lower_inc, upper_inc) ==
  IF talpha_type(temptype)
  THEN [box EXCEPT !.lower_inc = lower_inc, !.upper_inc = upper_inc]
  ELSE [box EXCEPT !.period.lower_inc = lower_inc,
                   !.period.upper_inc = upper_inc]

\* tinstarr_compute_bbox for the alphanumeric and number types (the spatial
\* types are handed to the geometry functions)
tinstarr_compute_bbox(temptype, instants, count, lower_inc, upper_inc, interp) ==
  set_period_inc(
    IF talpha_type(temptype)
    THEN span_set(instants[1].t, instants[count].t, lower_inc, upper_inc)
    ELSE tnumberinstarr_set_tbox(instants, count, lower_inc, upper_inc, interp),
    temptype, lower_inc, upper_inc)

\* the period kept at the beginning of the bounding box of a sequence
seq_period(sq) == IF talpha_type(sq.temptype) THEN sq.bbox ELSE sq.bbox.period

\* tnumberseq_expand_tbox: the box of the instant merged into the cached box
tnumberseq_expand_tbox(sq, inst) ==
  tbox_expand(tinstant_set_bbox(inst, sq.temptype), sq.bbox)

\* an expansion that keeps the upper inclusivity of the cached period
tsequence_expand_bbox_keep(sq, inst) ==
  IF talpha_type(sq.temptype)
  THEN span_set(TSEQUENCE_INST_N(sq, 0).t, inst.t,
                seq_period(sq).lower_inc, seq_period(sq).upper_inc)
  ELSE tnumberseq_expand_tbox(sq, inst)

\* tsequence_expand_bbox: the cached box after the call (alphanumeric and
\* number types)
tsequence_expand_bbox(sq, inst) ==
  IF talpha_type(sq.temptype)
  THEN span_set(TSEQUENCE_INST_N(sq, 0).t, inst.t,
                seq_period(sq).lower_inc, TRUE)
  ELSE tnumberseq_expand_tbox(sq, inst)

\* tsequence_compute_bbox: the cached box recomputed from all the instants
tsequence_compute_bbox(sq) ==
  tinstarr_compute_bbox(sq.temptype, sq.instants, sq.count,
                        seq_period(sq).lower_inc, seq_period(sq).upper_inc,
                        sq.interp)

(***************************************************************************)
(* Equality and ordering of bounding boxes                                 *)
(***************************************************************************)
cmp_int(a, b) == IF a < b THEN -1 ELSE IF a > b THEN 1 ELSE 0

\* span_cmp_int: lower bounds first (an inclusive lower bound is smaller),
\* then upper bounds (an inclusive upper bound is larger)
span_cmp_int(s1, s2) ==
  LET lo == IF s1.lower # s2.lower THEN cmp_int(s1.lower, s2.lower)
            ELSE IF s1.lower_inc = s2.lower_inc THEN 0
            ELSE IF s1.lower_inc THEN -1 ELSE 1
      up == IF s1.upper # s2.upper THEN cmp_int(s1.upper, s2.upper)
            ELSE IF s1.upper_inc = s2.upper_inc THEN 0
            ELSE IF s1.upper_inc THEN 1 ELSE -1
  IN IF lo # 0 THEN lo ELSE up

span_eq_int(s1, s2) == s1 = s2

\* tbox_cmp: the time spans, then the value spans
tbox_cmp(b1, b2) ==
  IF span_cmp_int(b1.period, b2.period) # 0
  THEN span_cmp_int(b1.period, b2.period)
  ELSE span_cmp_int(b1.span, b2.span)

tbox_eq(b1, b2) == b1 = b2

\* stbox_cmp: the time spans, then the spatial extents. The extents are
\* floating-point numbers: xlsb holds the least-significant bits of xmax,
\* which the three-way comparison does not tell apart.
stbox_cmp(b1, b2) ==
  IF span_cmp_int(b1.period, b2.period) # 0
  THEN span_cmp_int(b1.period, b2.period)
  ELSE IF b1.xmin # b2.xmin THEN cmp_int(b1.xmin, b2.xmin)
  ELSE cmp_int(b1.xmax, b2.xmax)

\* what a comparison leaves behind: the function called, the value returned
\* (eq for temporal_bbox_eq, cmp for temporal_bbox_cmp) and the error raised
CmpOutcome(fn, eq, cmp, err) == [fn |-> fn, eq |-> eq, cmp |-> cmp, err |-> err]

\* a variant of temporal_bbox_eq that compares spatial boxes field by field
temporal_bbox_eq_direct(box1, box2, temptype) ==
  IF talpha_type(temptype)
  THEN CmpOutcome("eq", span_eq_int(box1, box2), 0, "none")
  ELSE IF tnumber_type(temptype)
  THEN CmpOutcome("eq", tbox_eq(box1, box2), 0, "none")
  ELSE IF tspatial_type(temptype)
  THEN CmpOutcome("eq", box1 = box2, 0, "none")
  ELSE CmpOutcome("eq", FALSE, 0, "MEOS_ERR_INTERNAL_TYPE_ERROR")

\* temporal_bbox_eq
temporal_bbox_eq(box1, box2, temptype) ==
  IF talpha_type(temptype)
  THEN CmpOutcome("eq", span_eq_int(box1, box2), 0, "none")
  ELSE IF tnumber_type(temptype)
  THEN CmpOutcome("eq", tbox_eq(box1, box2), 0, "none")
  ELSE IF tspatial_type(temptype)
  THEN CmpOutcome("eq", stbox_cmp(box1, box2) = 0, 0, "none")
  ELSE CmpOutcome("eq", FALSE, 0, "MEOS_ERR_INTERNAL_TYPE_ERROR")

\* a variant of temporal_bbox_cmp that reports "less than" with the error
temporal_bbox_cmp_less(box1, box2, temptype) ==
  IF talpha_type(temptype)
  THEN CmpOutcome("cmp", FALSE, span_cmp_int(box1, box2), "none")
  ELSE IF tnumber_type(temptype)
  THEN CmpOutcome("cmp", FALSE, tbox_cmp(box1, box2), "none")
  ELSE IF tspatial_type(temptype)
  THEN CmpOutcome("cmp", FALSE, stbox_cmp(box1, box2), "none")
  ELSE CmpOutcome("cmp", FALSE, -1, "MEOS_ERR_INTERNAL_TYPE_ERROR")

\* temporal_bbox_cmp
temporal_bbox_cmp(box1, box2, temptype) ==
  IF talpha_type(temptype)
  THEN CmpOutcome("cmp", FALSE, span_cmp_int(box1, box2), "none")
  ELSE IF tnumber_type(temptype)
  THEN CmpOutcome("cmp", FALSE, tbox_cmp(box1, box2), "none")
  ELSE IF tspatial_type(temptype)
  THEN CmpOutcome("cmp", FALSE, stbox_cmp(box1, box2), "none")
  ELSE CmpOutcome("cmp", FALSE, INT_MAX, "MEOS_ERR_INTERNAL_TYPE_ERROR")

(***************************************************************************)
(* Temporal values                                                         *)
(***************************************************************************)
\* an array of n instants with consecutive timestamps from t0 on
InstArrs(n, t0, vals) ==
  { [i \in 1..n |-> [value |-> f[i], t |-> t0 + i - 1]] : f \in [1..n -> vals] }

\* a temporal instant
MakeInst(temptype, inst) ==
  [subtype |-> "TINSTANT", temptype |-> temptype,
   value |-> inst.value, t |-> inst.t]

\* a temporal sequence; its cached bounding box is computed at construction
MakeSeq(temptype, interp, lower_inc, upper_inc, instants) ==
  [subtype |-> "TSEQUENCE", temptype |-> temptype, interp |-> interp,
   count |-> Len(instants), instants |-> instants,
   bbox |-> tinstarr_compute_bbox(temptype, instants, Len(instants),
                                  lower_inc, upper_inc, interp)]

\* a temporal sequence set
MakeSeqSet(temptype, sequences) ==
  LET RECURSIVE total(_)
      total(i) == IF i = 0 THEN 0 ELSE total(i - 1) + sequences[i].count
  IN [subtype |-> "TSEQUENCESET", temptype |-> temptype,
      count |-> Len(sequences), totalcount |-> total(Len(sequences)),
      sequences |-> sequences]

(***************************************************************************)
(* Boxes functions: at most max_count temporal boxes of a temporal number  *)
(***************************************************************************)
\* An element of the output array: the temporal box together with the
\* timestamps of the instants merged into it (src is a history field, the
\* C array holds the box alone).
inst_entry(inst) == [box |-> tnumberinst_set_tbox(inst), src |-> {inst.t}]

\* tbox_expand(&e1, &e2) on two elements
expand_entry(e1, e2) ==
  [box |-> tbox_expand(e1.box, e2.box), src |-> e1.src \cup e2.src]

\* a slot of the output array that was never written
Uninit == [box |-> [uninit |-> TRUE], src |-> {}]

\* result[k] = e (k is 0-based; the array grows to hold every index written)
Store(result, k, e) ==
  IF k < Len(result)
  THEN [result EXCEPT ![k + 1] = e]
  ELSE result \o [x \in 1..(k - Len(result)) |-> Uninit] \o <<e>>

\* a variant of group_end that forgets the remainder
group_end_even(i, size, k, remainder) == i + size

\* the index j closing the group that starts at i: size units, one more for
\* the first remainder groups
group_end(i, size, k, remainder) ==
  IF k < remainder THEN i + size + 1 ELSE i + size

\* for (l = i + 1; l <= j; l++) tbox_expand(box of instant l, &result[k])
RECURSIVE merge_run(_, _, _, _)
merge_run(seq, l, j, e) ==
  IF l <= j
  THEN merge_run(seq, l + 1, j,
                 expand_entry(inst_entry(TSEQUENCE_INST_N(seq, l)), e))
  ELSE e

\* discrete sequence, one box per instant: writes seq.count elements
RECURSIVE disc_fill(_, _, _, _)
disc_fill(seq, i, result, off) ==
  IF i < seq.count
  THEN disc_fill(seq, i + 1,
                 Store(result, off + i, inst_entry(TSEQUENCE_INST_N(seq, i))),
                 off)
  ELSE result

\* discrete sequence, one box per several consecutive instants
RECURSIVE disc_merge_loop(_, _, _, _, _, _, _, _)
disc_merge_loop(seq, max_count, size, remainder, i, k, result, off) ==
  IF k < max_count
  THEN LET j == group_end(i, size, k, remainder)
           e == merge_run(seq, i + 1, j, inst_entry(TSEQUENCE_INST_N(seq, i)))
       IN disc_merge_loop(seq, max_count, size, remainder, j, k + 1,
                          Store(result, off + k, e), off)
  ELSE [result |-> result, i |-> i]

\* the value returned by the finest-granularity branch of the discrete iterator
disc_fill_count(seq) == seq.count - 1

\* tnumberseq_disc_tboxes_iter(seq, max_count, &result[off]); the field i is
\* the final value of the loop variable over the input (-1: loop not run)
tnumberseq_disc_tboxes_iter(seq, max_count, result, off) ==
  LET nsegs == seq.count - 1 IN
  IF max_count < 1 \/ nsegs <= max_count
  THEN [n |-> disc_fill_count(seq), result |-> disc_fill(seq, 0, result, off),
        i |-> -1]
  ELSE LET r == disc_merge_loop(seq, max_count, nsegs \div max_count,
                                nsegs % max_count, 0, 0, result, off)
       IN [n |-> max_count, result |-> r.result, i |-> r.i]

\* continuous sequence, one box per segment
RECURSIVE cont_fill(_, _, _, _)
cont_fill(seq, i, result, off) ==
  IF i < seq.count - 1
  THEN cont_fill(seq, i + 1,
         Store(result, off + i,
               expand_entry(inst_entry(TSEQUENCE_INST_N(seq, i + 1)),
                            inst_entry(TSEQUENCE_INST_N(seq, i)))),
         off)
  ELSE result

\* continuous sequence, one box per several consecutive segments
RECURSIVE cont_merge_loop(_, _, _, _, _, _, _, _)
cont_merge_loop(seq, max_count, size, remainder, i, k, result, off) ==
  IF k < max_count
  THEN LET j == group_end(i, size, k, remainder)
           e == merge_run(seq, i + 1, j, inst_entry(TSEQUENCE_INST_N(seq, i)))
       IN cont_merge_loop(seq, max_count, size, remainder, j, k + 1,
                          Store(result, off + k, e), off)
  ELSE [result |-> result, i |-> i]

\* tnumberseq_cont_tboxes_iter(seq, max_count, &result[off])
tnumberseq_cont_tboxes_iter(seq, max_count, result, off) ==
  LET nsegs == seq.count - 1 IN
  IF max_count < 1 \/ nsegs <= max_count
  THEN [n |-> nsegs, result |-> cont_fill(seq, 0, result, off), i |-> -1]
  ELSE LET r == cont_merge_loop(seq, max_count, nsegs \div max_count,
                                nsegs % max_count, 0, 0, result, off)
       IN [n |-> max_count, result |-> r.result, i |-> r.i]

\* tnumberseq_tboxes_iter(seq, max_count, &result[off])
tnumberseq_tboxes_iter(seq, max_count, result, off) ==
  IF seq.count = 1
  THEN [n |-> 1,
        result |-> Store(result, off, inst_entry(TSEQUENCE_INST_N(seq, 0))),
        i |-> -1]
  ELSE IF seq.interp = "DISCRETE"
       THEN tnumberseq_disc_tboxes_iter(seq, max_count, result, off)
       ELSE tnumberseq_cont_tboxes_iter(seq, max_count, result, off)

\* What a call leaves behind: the value returned ("NULL" or "array"), the
\* number of TBox slots allocated, the value written to *count, the elements
\* written and the final value of the loop variable over the input.
Outcome(ret, nalloc, count, result, i) ==
  [ret |-> ret, nalloc |-> nalloc, written |-> TRUE, count |-> count,
   result |-> result, i |-> i]

\* nothing allocated, nothing written to *count
NoOutcome(ret) ==
  [ret |-> ret, nalloc |-> 0, written |-> FALSE, count |-> 0,
   result |-> <<>>, i |-> -1]

\* tnumberinst_tboxes
tnumberinst_tboxes(inst) ==
  Outcome("array", 1, 1, <<inst_entry(inst)>>, -1)

\* tnumberseq_tboxes
tnumberseq_tboxes(seq, max_count) ==
  LET nboxes == IF max_count < 1
                THEN (IF seq.count = 1 THEN 1 ELSE seq.count - 1)
                ELSE max_count
      r == tnumberseq_tboxes_iter(seq, max_count, <<>>, 0)
  IN Outcome("array", nboxes, r.n, r.result, r.i)

\* the single box of a whole sequence: tnumberseq_tboxes_iter(seq, 1, &box)
seq_single_box(seq) == tnumberseq_tboxes_iter(seq, 1, <<>>, 0).result[1]

\* a loop that asks every sequence for a single box
RECURSIVE ss_fine_loop_whole(_, _, _, _, _)
ss_fine_loop_whole(ss, max_count, i, nboxes1, result) ==
  IF i < ss.count
  THEN LET r == tnumberseq_tboxes_iter(TSEQUENCESET_SEQ_N(ss, i), 1,
                                       result, nboxes1)
       IN ss_fine_loop_whole(ss, max_count, i + 1, nboxes1 + r.n, r.result)
  ELSE [n |-> nboxes1, result |-> result]

\* sequence set, one box per segment: every sequence with max_count itself
RECURSIVE ss_fine_loop(_, _, _, _, _)
ss_fine_loop(ss, max_count, i, nboxes1, result) ==
  IF i < ss.count
  THEN LET r == tnumberseq_tboxes_iter(TSEQUENCESET_SEQ_N(ss, i), max_count,
                                       result, nboxes1)
       IN ss_fine_loop(ss, max_count, i + 1, nboxes1 + r.n, r.result)
  ELSE [n |-> nboxes1, result |-> result]

\* the number of boxes granted to a sequence of count instants:
\* (int) (max_count * count * 1.0 / totalcount), raised to 1 when it is 0
nboxes_seq(max_count, count, totalcount) ==
  LET q == (max_count * count) \div totalcount
  IN IF q = 0 THEN 1 ELSE q

\* sequence set, boxes per sequence in proportion of its number of instants
RECURSIVE ss_prop_loop(_, _, _, _, _)
ss_prop_loop(ss, max_count, i, nboxes1, result) ==
  IF i < ss.count
  THEN LET seq == TSEQUENCESET_SEQ_N(ss, i)
           r == tnumberseq_tboxes_iter(seq,
                  nboxes_seq(max_count, seq.count, ss.totalcount),
                  result, nboxes1)
       IN ss_prop_loop(ss, max_count, i + 1, nboxes1 + r.n, r.result)
  ELSE [n |-> nboxes1, result |-> result]

\* for (l = i + 1; l <= j; l++) tbox_expand(box of sequence l, &result[k])
RECURSIVE ss_merge_run(_, _, _, _)
ss_merge_run(ss, l, j, e) ==
  IF l <= j
  THEN ss_merge_run(ss, l + 1, j,
         expand_entry(seq_single_box(TSEQUENCESET_SEQ_N(ss, l)), e))
  ELSE e

\* a grouping that gives every group size sequences and drops the remainder
ss_group_last_even(i, size, k, remainder) == i + size - 1

\* the index j of the last sequence of the group that starts at i
ss_group_last(i, size, k, remainder) ==
  IF k < remainder THEN i + size ELSE i + size - 1

\* sequence set, consecutive sequences merged to reach max_count boxes
RECURSIVE ss_merge_loop(_, _, _, _, _, _, _)
ss_merge_loop(ss, max_count, size, remainder, i, k, result) ==
  IF k < max_count
  THEN LET j == ss_group_last(i, size, k, remainder)
           first == seq_single_box(TSEQUENCESET_SEQ_N(ss, i))
       IN IF i < j
          THEN ss_merge_loop(ss, max_count, size, remainder, j + 1, k + 1,
                 Store(result, k, ss_merge_run(ss, i + 1, j, first)))
          ELSE ss_merge_loop(ss, max_count, size, remainder, i + 1, k + 1,
                 Store(result, k, first))
  ELSE [result |-> result, i |-> i]

\* tnumberseqset_tboxes
tnumberseqset_tboxes(ss, max_count) ==
  LET nboxes == IF max_count < 1 THEN ss.totalcount ELSE max_count IN
  IF max_count < 1 \/ ss.totalcount <= max_count
  THEN LET r == ss_fine_loop(ss, max_count, 0, 0, <<>>)
       IN Outcome("array", nboxes, r.n, r.result, -1)
  ELSE IF ss.count <= max_count
  THEN LET r == ss_prop_loop(ss, max_count, 0, 0, <<>>)
       IN Outcome("array", nboxes, r.n, r.result, -1)
  ELSE LET r == ss_merge_loop(ss, max_count, ss.count \div max_count,
                              ss.count % max_count, 0, 0, <<>>)
       IN Outcome("array", nboxes, max_count, r.result, r.i)

\* a variant of valid_args without the test of the temporal type
valid_args_anytype(temp, hascount) == temp # NULL /\ hascount

\* the validity test of tnumber_tboxes; hascount tells whether the count
\* pointer is not null
valid_args(temp, hascount) ==
  temp # NULL /\ hascount /\ tnumber_type(temp.temptype)

\* tnumber_tboxes
tnumber_tboxes(temp, max_count, hascount) ==
  IF ~valid_args(temp, hascount)
  THEN NoOutcome("NULL")
  ELSE IF temp.subtype = "TINSTANT"
  THEN tnumberinst_tboxes(temp)
  ELSE IF temp.subtype = "TSEQUENCE"
  THEN tnumberseq_tboxes(temp, max_count)
  ELSE tnumberseqset_tboxes(temp, max_count)

(***************************************************************************)
(* State                                                                   *)
(***************************************************************************)
VARIABLES
  pc,         \* "start": arguments chosen, "done": the call has returned
  temp,       \* the temporal value passed (NULL for a null pointer)
  max_count,  \* the max_count passed
  hascount,   \* whether the count pointer passed is not null
  out,        \* what the call left behind (ret is "none" before it returns)
  arr,        \* the arguments of tinstarr_compute_bbox
  box,        \* the bounding box tinstarr_compute_bbox wrote
  seq,        \* the temporal sequence instants are appended to
  cmpargs,    \* the arguments of temporal_bbox_eq / temporal_bbox_cmp
  cmpres      \* what temporal_bbox_eq / temporal_bbox_cmp returned

vars == <<pc, temp, max_count, hascount, out, arr, box, seq, cmpargs, cmpres>>

\* the value of a variable the specification at hand does not use
Idle == [idle |-> TRUE]

(***************************************************************************)
(* The inputs of the decomposition                                         *)
(***************************************************************************)
Vals == 0..MaxVal

MaxCounts == (-1)..MaxCount

\* the temporal number instants
NumInstants == { MakeInst("T_TFLOAT", a[1]) : a \in InstArrs(1, 1, Vals) }

\* the temporal number sequences of n instants starting at t0 with values
\* among vals
NumSeqs(n, t0, interps, vals) ==
  { MakeSeq("T_TFLOAT", ip, TRUE, TRUE, a) :
      ip \in interps, a \in InstArrs(n, t0, vals) }

NumSequences == UNION { NumSeqs(n, 1, Interps, Vals) : n \in 1..MaxInst }

\* the instants of the sequences of a sequence set hold the smallest or the
\* largest value
SetVals == {0, MaxVal}

\* the arrays of nseqs linear sequences holding total instants from t0 on
RECURSIVE SeqArrs(_, _, _)
SeqArrs(nseqs, t0, total) ==
  IF nseqs = 0
  THEN (IF total = 0 THEN {<<>>} ELSE {})
  ELSE UNION { { <<s>> \o rest : s \in NumSeqs(c, t0, {"LINEAR"}, SetVals),
                                 rest \in SeqArrs(nseqs - 1, t0 + c, total - c) } :
               c \in 1..(total - (nseqs - 1)) }

NumSeqSets ==
  UNION { { MakeSeqSet("T_TFLOAT", a) : a \in SeqArrs(n, 1, total) } :
          n \in 1..MaxSeqs, total \in 1..MaxTotal }

\* the arrays of nseqs linear sequences of c instants each from t0 on
RECURSIVE SameSizeSeqArrs(_, _, _)
SameSizeSeqArrs(nseqs, t0, c) ==
  IF nseqs = 0
  THEN {<<>>}
  ELSE { <<s>> \o rest : s \in NumSeqs(c, t0, {"LINEAR"}, SetVals),
                         rest \in SameSizeSeqArrs(nseqs - 1, t0 + c, c) }

\* the sequence sets of three sequences of three instants each
ThreeByThreeSets == { MakeSeqSet("T_TFLOAT", a) : a \in SameSizeSeqArrs(3, 1, 3) }

\* temporal values that are not temporal numbers
OtherTemporals ==
  { [x EXCEPT !.temptype = tt] :
      x \in NumInstants \cup NumSeqs(2, 1, Interps, Vals),
      tt \in TempTypes \ {"T_TFLOAT"} }

(***************************************************************************)
(* Sequence level: tnumber_tboxes on an instant or a sequence              *)
(***************************************************************************)
Init ==
  /\ pc = "start"
  /\ \/ /\ temp \in NumInstants \cup NumSequences
        /\ hascount = TRUE
     \/ /\ temp \in OtherTemporals \cup {NULL}
        /\ hascount \in BOOLEAN
     \/ /\ temp \in NumInstants \cup NumSeqs(2, 1, Interps, Vals)
        /\ hascount = FALSE
  /\ max_count \in MaxCounts
  /\ out = NoOutcome("none")
  /\ arr = Idle /\ box = Idle /\ seq = Idle /\ cmpargs = Idle /\ cmpres = Idle

\* A write past the last allocated slot is undefined behaviour. What the
\* caller can see afterwards is one of: the writes landed in the memory that
\* follows the array and are read back as written; that memory was reused, and
\* the slots past the array read back as arbitrary contents; or the process
\* was stopped at the write and the call never returned.
ub_outcomes(o) ==
  IF Len(o.result) <= o.nalloc THEN {o}
  ELSE { o,
         [o EXCEPT !.result = [k \in 1..Len(o.result) |->
                                 IF k <= o.nalloc THEN o.result[k] ELSE Uninit]],
         [o EXCEPT !.ret = "abort", !.written = FALSE, !.count = 0] }

\* the call tnumber_tboxes(temp, max_count, count)
Call ==
  /\ pc = "start"
  /\ \E o \in ub_outcomes(tnumber_tboxes(temp, max_count, hascount)) :
       /\ out' = o
       /\ pc' = IF o.ret = "abort" THEN "aborted" ELSE "done"
  /\ UNCHANGED <<temp, max_count, hascount, arr, box, seq, cmpargs, cmpres>>

Next == Call

Spec == Init /\ [][Next]_vars

(***************************************************************************)
(* Sequence-set level: tnumber_tboxes on a sequence set                    *)
(***************************************************************************)
InitSet ==
  /\ pc = "start"
  /\ temp \in NumSeqSets \cup ThreeByThreeSets
  /\ hascount = TRUE
  /\ max_count \in MaxCounts
  /\ out = NoOutcome("none")
  /\ arr = Idle /\ box = Idle /\ seq = Idle /\ cmpargs = Idle /\ cmpres = Idle

SpecSet == InitSet /\ [][Next]_vars

(***************************************************************************)
(* Box construction: tinstarr_compute_bbox on an array of instants         *)
(***************************************************************************)
BoxVals == 0..MaxBoxVal

InitBbox ==
  /\ pc = "start"
  /\ \E tt \in {"T_TBOOL", "T_TFLOAT"}, ip \in Interps, li \in BOOLEAN,
        ui \in BOOLEAN, n \in 1..MaxBoxInst :
       \E a \in InstArrs(n, 0, BoxVals) :
         arr = [temptype |-> tt, instants |-> a, count |-> n,
                lower_inc |-> li, upper_inc |-> ui, interp |-> ip]
  /\ box = Idle
  /\ temp = Idle /\ max_count = 0 /\ hascount = FALSE /\ out = Idle
  /\ seq = Idle /\ cmpargs = Idle /\ cmpres = Idle

\* the call tinstarr_compute_bbox(instants, count, lower_inc, upper_inc,
\* interp, box)
ComputeBbox ==
  /\ pc = "start"
  /\ arr # Idle
  /\ box' = tinstarr_compute_bbox(arr.temptype, arr.instants, arr.count,
                                  arr.lower_inc, arr.upper_inc, arr.interp)
  /\ pc' = "done"
  /\ UNCHANGED <<temp, max_count, hascount, out, arr, seq, cmpargs, cmpres>>

NextBbox == ComputeBbox

SpecBbox == InitBbox /\ [][NextBbox]_vars

(***************************************************************************)
(* A sequence grown by appending instants                                  *)
(***************************************************************************)
AppVals == 0..MaxAppVal

\* the sequences the constructors accept: one instant alone and discrete
\* interpolation have inclusive bounds, and a step sequence with an exclusive
\* upper bound ends with two equal values
ValidSeq(ip, li, ui, a) ==
  /\ (Len(a) = 1 \/ ip = "DISCRETE") => (li /\ ui)
  /\ (ip = "STEP" /\ ~ui) => a[Len(a)].value = a[Len(a) - 1].value

InitSeq ==
  /\ pc = "seq"
  /\ \E tt \in {"T_TBOOL", "T_TFLOAT"}, ip \in Interps, li \in BOOLEAN,
        ui \in BOOLEAN, n \in 1..2 :
       \E a \in InstArrs(n, 0, AppVals) :
         /\ ValidSeq(ip, li, ui, a)
         /\ talpha_type(tt) => ip # "LINEAR"
         /\ seq = MakeSeq(tt, ip, li, ui, a)
  /\ temp = Idle /\ max_count = 0 /\ hascount = FALSE /\ out = Idle
  /\ arr = Idle /\ box = Idle /\ cmpargs = Idle /\ cmpres = Idle

\* an instant is appended to the sequence: the caller stores it after the
\* last instant and tsequence_expand_bbox updates the cached box
ExpandBbox ==
  /\ pc = "seq"
  /\ seq.count < MaxAppInst
  /\ \E v \in AppVals, gap \in 1..MaxGap :
       LET inst == [value |-> v, t |-> seq.instants[seq.count].t + gap]
       IN seq' = [seq EXCEPT !.bbox = tsequence_expand_bbox(seq, inst),
                             !.instants = Append(@, inst),
                             !.count = @ + 1]
  /\ UNCHANGED <<pc, temp, max_count, hascount, out, arr, box, cmpargs, cmpres>>

\* the cached box is recomputed upon a restart
RecomputeBbox ==
  /\ pc = "seq"
  /\ seq' = [seq EXCEPT !.bbox = tsequence_compute_bbox(seq)]
  /\ UNCHANGED <<pc, temp, max_count, hascount, out, arr, box, cmpargs, cmpres>>

NextSeq == ExpandBbox \/ RecomputeBbox

SpecSeq == InitSeq /\ [][NextSeq]_vars

(***************************************************************************)
(* Equality and ordering calls                                             *)
(***************************************************************************)
Coords == 0..MaxCoord

\* the spans over the coordinates: a span of one point has inclusive bounds
Spans ==
  { span_set(l, u, li, ui) : l \in Coords, u \in Coords,
                             li \in BOOLEAN, ui \in BOOLEAN }

ValidSpans == { s \in Spans : s.lower < s.upper
                              \/ (s.lower = s.upper /\ s.lower_inc /\ s.upper_inc) }

TBoxes ==
  { [span |-> s, period |-> p, flagX |-> TRUE, flagT |-> TRUE] :
      s \in ValidSpans, p \in ValidSpans }

STBoxes ==
  { [period |-> p, xmin |-> s.lower, xmax |-> s.upper, xlsb |-> b] :
      s \in ValidSpans, p \in ValidSpans, b \in 0..1 }

\* the boxes of a temporal type (a span stands for the box of a type that is
\* not recognised)
BoxesOf(temptype) ==
  IF tnumber_type(temptype) THEN TBoxes
  ELSE IF tspatial_type(temptype) THEN STBoxes
  ELSE ValidSpans

InitCmp ==
  /\ pc = "start"
  /\ \E tt \in TempTypes :
       \E b1 \in BoxesOf(tt), b2 \in BoxesOf(tt) :
         cmpargs = [box1 |-> b1, box2 |-> b2, temptype |-> tt]
  /\ cmpres = Idle
  /\ temp = Idle /\ max_count = 0 /\ hascount = FALSE /\ out = Idle
  /\ arr = Idle /\ box = Idle /\ seq = Idle

\* the call temporal_bbox_eq(box1, box2, temptype)
BboxEq ==
  /\ pc = "start"
  /\ cmpres' = temporal_bbox_eq(cmpargs.box1, cmpargs.box2, cmpargs.temptype)
  /\ pc' = "done"
  /\ UNCHANGED <<temp, max_count, hascount, out, arr, box, seq, cmpargs>>

\* the call temporal_bbox_cmp(box1, box2, temptype)
BboxCmp ==
  /\ pc = "start"
  /\ cmpres' = temporal_bbox_cmp(cmpargs.box1, cmpargs.box2, cmpargs.temptype)
  /\ pc' = "done"
  /\ UNCHANGED <<temp, max_count, hascount, out, arr, box, seq, cmpargs>>

NextCmp == BboxEq \/ BboxCmp

SpecCmp == InitCmp /\ [][NextCmp]_vars

(***************************************************************************)
(* Properties of the box construction (SpecBbox)                           *)
(***************************************************************************)
\* the call at hand computed the temporal box of a temporal number
NumBoxDone == pc = "done" /\ arr # Idle /\ tnumber_type(arr.temptype)

ArrValues == { arr.instants[i].value : i \in 1..arr.count }

ArrMin == CHOOSE m \in ArrValues : \A v \in ArrValues : m <= v

ArrMax == CHOOSE m \in ArrValues : \A v \in ArrValues : m >= v

\* the 0-based indexes of the instants holding the value v
IndexesOf(v) == { i \in 0..(arr.count - 1) : arr.instants[i + 1].value = v }

\* the tie-break applies: linear interpolation and a span of several values
TieBreakCase == NumBoxDone /\ arr.interp = "LINEAR" /\ ArrMin # ArrMax

\* C5 as stated: an extreme value that occurs at any index except the last
\* (index 0 included) gives an inclusive bound, one that occurs at the last
\* instant only gives a bound with the inclusivity of upper_inc
ClaimedInc(v) ==
  IF \E i \in IndexesOf(v) : i < arr.count - 1 THEN TRUE ELSE arr.upper_inc

C5_TieBreakAsStated ==
  TieBreakCase =>
    /\ box.span.lower_inc = ClaimedInc(ArrMin)
    /\ box.span.upper_inc = ClaimedInc(ArrMax)

\* the inclusivity an occurrence at index i gives: lower_inc at index 0, true
\* strictly inside, upper_inc at the last index
OccurrenceInc(i) ==
  IF i = 0 THEN arr.lower_inc
  ELSE IF i < arr.count - 1 THEN TRUE
  ELSE arr.upper_inc

\* C5 (amended): for linear interpolation and min < max, the lower (upper)
\* value bound is the minimum (maximum) value and it is inclusive exactly when
\* some occurrence of that value gives inclusivity: an occurrence strictly
\* between the first and the last instant always does, the one at index 0 does
\* when lower_inc holds and the one at the last instant when upper_inc holds;
\* the time span is [t_first, t_last] with the flags lower_inc and upper_inc.
C5_TieBreak ==
  TieBreakCase =>
    /\ box.span.lower = ArrMin /\ box.span.upper = ArrMax
    /\ box.span.lower_inc = (\E i \in IndexesOf(ArrMin) : OccurrenceInc(i))
    /\ box.span.upper_inc = (\E i \in IndexesOf(ArrMax) : OccurrenceInc(i))
    /\ box.period = span_set(arr.instants[1].t, arr.instants[arr.count].t,
                             arr.lower_inc, arr.upper_inc)

\* the scenario: linear (0,t0),(5,t1),(2,t2), [t0, t2) gives values [0, 5]
C5_Witness ==
  /\ TieBreakCase
  /\ arr.count = 3
  /\ arr.instants[1].value = 0 /\ arr.instants[2].value = 5
  /\ arr.instants[3].value = 2
  /\ arr.lower_inc /\ ~arr.upper_inc
  /\ box.span = span_set(0, 5, TRUE, TRUE)
  /\ box.period = span_set(0, 2, TRUE, FALSE)

\* C6: when the interpolation is not linear both value bounds of the box are
\* inclusive whatever lower_inc and upper_inc are, and the time span keeps
\* the flags lower_inc and upper_inc.
C6_NonLinearForcing ==
  (NumBoxDone /\ arr.interp # "LINEAR") =>
    /\ box.span.lower_inc /\ box.span.upper_inc
    /\ box.period.lower_inc = arr.lower_inc
    /\ box.period.upper_inc = arr.upper_inc

\* a step sequence of several values with both time bounds exclusive
C6_Witness ==
  /\ NumBoxDone /\ arr.interp = "STEP" /\ ArrMin # ArrMax
  /\ ~arr.lower_inc /\ ~arr.upper_inc
  /\ box.span.lower_inc /\ box.span.upper_inc
  /\ ~box.period.lower_inc /\ ~box.period.upper_inc

\* C7: when all the instants have the same value v the value span of the box
\* is [v, v] with both bounds inclusive, and the X and T flags are set.
C7_DegenerateMerge ==
  (NumBoxDone /\ ArrMin = ArrMax) =>
    /\ box.span = span_set(ArrMin, ArrMin, TRUE, TRUE)
    /\ box.flagX /\ box.flagT

\* a linear sequence of three equal values with both time bounds exclusive
C7_Witness ==
  /\ NumBoxDone /\ ArrMin = ArrMax
  /\ arr.interp = "LINEAR" /\ arr.count = 3
  /\ ~arr.lower_inc /\ ~arr.upper_inc
  /\ box.span = span_set(ArrMin, ArrMin, TRUE, TRUE)

(***************************************************************************)
(* Properties of a sequence grown by appending (SpecSeq)                   *)
(***************************************************************************)
\* C4: the cached box of a sequence (bounds and inclusivity flags of every
\* dimension) equals the box tinstarr_compute_bbox computes from all the
\* instants of the sequence with its bound flags.
C4_CachedEqualsRescan ==
  pc = "seq" => seq.bbox = tsequence_compute_bbox(seq)

(***************************************************************************)
(* Properties of the equality and ordering calls (SpecCmp)                 *)
(***************************************************************************)
RecognizedType(tt) == tt \in {"T_TBOOL", "T_TFLOAT", "T_TGEOMPOINT"}

\* C9: for a temporal type that is none of alphanumeric, number or spatial,
\* temporal_bbox_eq raises the internal type error and returns false and
\* temporal_bbox_cmp raises it and returns INT_MAX, which is none of -1, 0, 1;
\* for a recognized type temporal_bbox_cmp returns one of -1, 0, 1 and raises
\* no error.
C9_UnknownTypeSentinels ==
  (pc = "done" /\ cmpargs # Idle) =>
    /\ (~RecognizedType(cmpargs.temptype) /\ cmpres.fn = "eq") =>
         (cmpres.err = "MEOS_ERR_INTERNAL_TYPE_ERROR" /\ cmpres.eq = FALSE)
    /\ (~RecognizedType(cmpargs.temptype) /\ cmpres.fn = "cmp") =>
         /\ cmpres.err = "MEOS_ERR_INTERNAL_TYPE_ERROR"
         /\ cmpres.cmp = INT_MAX
         /\ cmpres.cmp \notin {-1, 0, 1}
    /\ (RecognizedType(cmpargs.temptype) /\ cmpres.fn = "cmp") =>
         (cmpres.cmp \in {-1, 0, 1} /\ cmpres.err = "none")

\* temporal_bbox_cmp returned on a type that is not recognised
C9_Witness ==
  /\ pc = "done" /\ cmpargs # Idle
  /\ cmpargs.temptype = "T_UNKNOWN" /\ cmpres.fn = "cmp"
  /\ cmpres.cmp = INT_MAX /\ cmpres.err = "MEOS_ERR_INTERNAL_TYPE_ERROR"

(***************************************************************************)
(* Properties of the decomposition (Spec, SpecSet)                         *)
(***************************************************************************)
\* the call at hand was made with valid arguments on a temporal number of
\* the given subtype and has returned
Returned(subtype) ==
  /\ pc = "done" /\ temp # Idle /\ temp # NULL /\ hascount
  /\ temp.temptype = "T_TFLOAT" /\ temp.subtype = subtype

\* the value x lies in the span s
InSpan(s, x) ==
  /\ s.lower < x \/ (s.lower = x /\ s.lower_inc)
  /\ x < s.upper \/ (x = s.upper /\ s.upper_inc)

\* the instant lies in the temporal box
InBox(b, inst) == InSpan(b.span, inst.value) /\ InSpan(b.period, inst.t)

\* the indexes of the boxes reported to the caller: the first *count elements
ReportedIdx == 1..out.count

\* C1: for max_count >= 1 the boxes reported for a sequence cover every
\* instant of the sequence: every instant lies in a reported box and was
\* merged into one (the boxes of all the elementary units are in the union).
\* Stated of the calls that write inside the array they allocated.
C1_SeqCoverage ==
  (Returned("TSEQUENCE") /\ max_count >= 1 /\ Len(out.result) <= out.nalloc) =>
    \A i \in 1..temp.count :
      /\ \E k \in ReportedIdx : InBox(out.result[k].box, temp.instants[i])
      /\ \E k \in ReportedIdx : temp.instants[i].t \in out.result[k].src

\* the number of segments of the sequence passed
NSegs == temp.count - 1

\* the merging branch of the sequence iterators is taken
MergeCase ==
  Returned("TSEQUENCE") /\ 1 <= max_count /\ max_count < NSegs

\* the number of units (pairs of adjacent instants) merged into box k
GroupSize(k) == Cardinality(out.result[k].src) - 1

RECURSIVE SumSizes(_)
SumSizes(k) == IF k = 0 THEN 0 ELSE SumSizes(k - 1) + GroupSize(k)

C3_SeqSetCountBound ==
  (Returned("TSEQUENCESET") /\ max_count >= 1) =>
    (1 <= out.count /\ out.count <= max_count)

\* The elementary units of the sequence passed, numbered in temporal order:
\* its instants when discrete or instantaneous, its segments otherwise.
InstantUnits == temp.interp = "DISCRETE" \/ temp.count = 1

UnitIdx == IF InstantUnits THEN 1..temp.count ELSE 1..(temp.count - 1)

\* the timestamps of the instants of unit u
UnitTimes(u) ==
  IF InstantUnits THEN {temp.instants[u].t}
  ELSE {temp.instants[u].t, temp.instants[u + 1].t}

\* the units that contribute to box k
UnitsOf(k) == { u \in UnitIdx : UnitTimes(u) \subseteq out.result[k].src }

\* the box that merges the instants of the units of U
UnionBox(U) ==
  LET ts == UNION { UnitTimes(u) : u \in U }
      is == { i \in 1..temp.count : temp.instants[i].t \in ts }
      vs == { temp.instants[i].value : i \in is }
  IN [span |-> span_set(CHOOSE m \in vs : \A v \in vs : m <= v,
                        CHOOSE m \in vs : \A v \in vs : m >= v, TRUE, TRUE),
      period |-> span_set(CHOOSE m \in ts : \A v \in ts : m <= v,
                          CHOOSE m \in ts : \A v \in ts : m >= v, TRUE, TRUE),
      flagX |-> TRUE, flagT |-> TRUE]

\* C8 at the sequence level: the boxes reported are in temporal order, box k
\* is the union of one non-empty contiguous run of elementary units, the run
\* of a box starts no later than right after the run of the box before it,
\* and no elementary unit contributes to two boxes. It is stated of the calls
\* whose writes stay inside the array.
C8_PartitionPostcondition ==
  (Returned("TSEQUENCE") /\ Len(out.result) <= out.nalloc) =>
    /\ \A k \in ReportedIdx :
         /\ UnitsOf(k) # {}
         /\ \A u \in UnitIdx :
              (\E a \in UnitsOf(k), b \in UnitsOf(k) : a <= u /\ u <= b)
                => u \in UnitsOf(k)
         /\ out.result[k].box = UnionBox(UnitsOf(k))
    /\ \A k \in ReportedIdx \ {1} :
         /\ out.result[k - 1].box.period.lower <= out.result[k].box.period.lower
         /\ out.result[k - 1].box.period.upper <= out.result[k].box.period.upper
         /\ \E a \in UnitsOf(k - 1), b \in UnitsOf(k) : b <= a + 1
    /\ \A k1 \in ReportedIdx, k2 \in ReportedIdx :
         k1 # k2 => UnitsOf(k1) \cap UnitsOf(k2) = {}

\* the arguments fail the validity test of tnumber_tboxes
InvalidArgs == temp = NULL \/ ~hascount \/ temp.temptype # "T_TFLOAT"

\* the box of the instant (v, t)
InstantBox(v, t) ==
  [span |-> span_set(v, v, TRUE, TRUE), period |-> span_set(t, t, TRUE, TRUE),
   flagX |-> TRUE, flagT |-> TRUE]

\* C10: tnumber_tboxes with a null value, a null count pointer or a value
\* that is not a temporal number returns NULL, allocates nothing and does not
\* write *count; with valid arguments it returns an array and writes *count,
\* and for an instant or an instantaneous sequence the array holds exactly one
\* box, the box of the instant, whatever max_count is.
C10_ValidationBeforeAllocation ==
  (pc = "done" /\ temp # Idle) =>
    /\ InvalidArgs =>
         (out.ret = "NULL" /\ out.nalloc = 0 /\ ~out.written)
    /\ ~InvalidArgs =>
         /\ out.ret = "array" /\ out.written
         /\ out.nalloc >= 1 /\ out.count >= 1
         /\ temp.subtype = "TINSTANT" =>
              /\ out.count = 1 /\ Len(out.result) = 1
              /\ out.result[1].box = InstantBox(temp.value, temp.t)
         /\ (temp.subtype = "TSEQUENCE" /\ temp.count = 1) =>
              /\ out.count = 1 /\ Len(out.result) = 1
              /\ out.result[1].box =
                   InstantBox(temp.instants[1].value, temp.instants[1].t)

\* a temporal value that is not a temporal number was passed and refused
C10_Witness ==
  /\ pc = "done" /\ temp # Idle /\ temp # NULL /\ hascount
  /\ temp.temptype = "T_TBOOL" /\ temp.subtype = "TSEQUENCE"
  /\ out.ret = "NULL" /\ out.nalloc = 0 /\ ~out.written

(***************************************************************************)
(* Sequence-set level claims                                               *)
(***************************************************************************)
\* the instants of the sequences a..b of the sequence set (first sequence 1)
InstantsOfSeqs(a, b) ==
  UNION { { temp.sequences[s].instants[n] : n \in 1..temp.sequences[s].count } :
          s \in a..b }

\* the smallest box that holds a non-empty set of instants
BoxOfInstants(S) ==
  LET vs == { x.value : x \in S }
      ts == { x.t : x \in S }
  IN [span |-> span_set(CHOOSE m \in vs : \A v \in vs : m <= v,
                        CHOOSE m \in vs : \A v \in vs : m >= v, TRUE, TRUE),
      period |-> span_set(CHOOSE m \in ts : \A v \in ts : m <= v,
                          CHOOSE m \in ts : \A v \in ts : m >= v, TRUE, TRUE),
      flagX |-> TRUE, flagT |-> TRUE]

\* a sequence set with more sequences than the boxes asked for
MergeSetCase ==
  Returned("TSEQUENCESET") /\ 1 <= max_count /\ max_count < temp.count

\* the number of sequences of the k-th run (first run 0)
RunSize(k) ==
  IF k < temp.count % max_count
  THEN temp.count \div max_count + 1
  ELSE temp.count \div max_count

\* the number of sequences that precede the k-th run
RECURSIVE RunStart(_)
RunStart(k) == IF k = 0 THEN 0 ELSE RunStart(k - 1) + RunSize(k - 1)

\* C11: when 1 <= max_count < ss->count, tnumberseqset_tboxes reports exactly
\* max_count boxes; box k is the union of the whole-sequence boxes of a run of
\* consecutive sequences, of ss->count / max_count + 1 sequences when
\* k < ss->count % max_count and of ss->count / max_count sequences otherwise;
\* the runs follow one another, so that every sequence is in exactly one run,
\* and the index over the sequences is ss->count when the loop ends.
C11_WholeSequenceRuns ==
  MergeSetCase =>
    /\ out.count = max_count
    /\ Len(out.result) = max_count
    /\ \A k \in 0..(max_count - 1) :
         LET S == InstantsOfSeqs(RunStart(k) + 1, RunStart(k) + RunSize(k))
         IN /\ RunSize(k) >= 1
            /\ out.result[k + 1].src = { x.t : x \in S }
            /\ out.result[k + 1].box = BoxOfInstants(S)
    /\ RunStart(max_count) = temp.count
    /\ out.i = temp.count

\* three sequences were merged into two boxes: a run of two sequences, then a
\* run of one
C11_Witness ==
  /\ MergeSetCase
  /\ temp.count = 3 /\ max_count = 2
  /\ out.count = 2 /\ out.i = 3
  /\ out.result[1].src = { x.t : x \in InstantsOfSeqs(1, 2) }
  /\ out.result[2].src = { x.t : x \in InstantsOfSeqs(3, 3) }

\* a sequence set with at most as many sequences as the boxes asked for, and
\* more instants than that
PropCase ==
  /\ Returned("TSEQUENCESET")
  /\ temp.count <= max_count /\ max_count < temp.totalcount

\* the number of elementary units of the s-th sequence (first sequence 1)
UnitCount(s) ==
  IF temp.sequences[s].count = 1 THEN 1 ELSE temp.sequences[s].count - 1

\* max(1, floor(max_count * count / totalcount))
SubBudget(s) ==
  LET q == (max_count * temp.sequences[s].count) \div temp.totalcount
  IN IF q > 1 THEN q ELSE 1

\* min(unit count, sub-budget)
Contribution(s) ==
  IF UnitCount(s) < SubBudget(s) THEN UnitCount(s) ELSE SubBudget(s)

\* the number of boxes contributed by the sequences before the s-th
RECURSIVE BoxesBefore(_)
BoxesBefore(s) ==
  IF s = 1 THEN 0 ELSE BoxesBefore(s - 1) + Contribution(s - 1)

\* C12: when ss->count <= max_count < ss->totalcount, every sequence is
\* partitioned on its own with the sub-budget
\* max(1, floor(max_count * count / totalcount)) and contributes
\* min(its number of units, its sub-budget) boxes; the array reported is the
\* concatenation of these partitions in the order of the sequences.
C12_ProportionalConcat ==
  PropCase =>
    /\ out.count = BoxesBefore(temp.count + 1)
    /\ Len(out.result) = out.count
    /\ \A s \in 1..temp.count :
         LET part == tnumberseq_tboxes_iter(temp.sequences[s], SubBudget(s),
                                            <<>>, 0).result
         IN /\ Len(part) = Contribution(s)
            /\ \A k \in 1..Contribution(s) :
                 /\ out.result[BoxesBefore(s) + k] = part[k]
                 /\ out.result[BoxesBefore(s) + k].src \subseteq
                      { x.t : x \in InstantsOfSeqs(s, s) }

\* three sequences of three instants each with max_count = 3: three boxes,
\* one per sequence, each one the box of its whole sequence
C12_ThreeByThree ==
  /\ PropCase
  /\ temp \in ThreeByThreeSets /\ max_count = 3
  /\ out.count = 3 /\ Len(out.result) = 3
  /\ \A s \in 1..3 :
       /\ out.result[s].src = { x.t : x \in InstantsOfSeqs(s, s) }
       /\ out.result[s].box = BoxOfInstants(InstantsOfSeqs(s, s))

\* a sequence set and a max_count that asks for no merging
FineCase ==
  /\ Returned("TSEQUENCESET")
  /\ max_count < 1 \/ temp.totalcount <= max_count

\* the number of elementary units of the sequences before the s-th
RECURSIVE UnitsBefore(_)
UnitsBefore(s) == IF s = 1 THEN 0 ELSE UnitsBefore(s - 1) + UnitCount(s - 1)

\* the instants of the u-th elementary unit of the s-th sequence: the instant
\* of an instantaneous sequence, the two ends of a segment otherwise
UnitInstants(s, u) ==
  IF temp.sequences[s].count = 1
  THEN { temp.sequences[s].instants[1] }
  ELSE { temp.sequences[s].instants[u], temp.sequences[s].instants[u + 1] }

\* C13: when max_count < 1 or ss->totalcount <= max_count, tnumberseqset_tboxes
\* reports the boxes of the elementary units of every sequence, sequence after
\* sequence, and *count is the sum over the sequences of count - 1, or of 1
\* for an instantaneous sequence.
C13_FinestConcat ==
  FineCase =>
    /\ out.count = UnitsBefore(temp.count + 1)
    /\ Len(out.result) = out.count
    /\ out.count <= out.nalloc
    /\ \A s \in 1..temp.count :
         \A u \in 1..UnitCount(s) :
           /\ out.result[UnitsBefore(s) + u].src =
                { x.t : x \in UnitInstants(s, u) }
           /\ out.result[UnitsBefore(s) + u].box =
                BoxOfInstants(UnitInstants(s, u))

\* an instantaneous sequence followed by a sequence of three instants, with
\* max_count equal to the number of instants: one box, then two
C13_Witness ==
  /\ FineCase
  /\ temp.count = 2 /\ max_count = temp.totalcount
  /\ temp.sequences[1].count = 1 /\ temp.sequences[2].count = 3
  /\ out.count = 3
  /\ out.result[1].src = {1} /\ out.result[2].src = {2, 3}
  /\ out.result[3].src = {3, 4}

(***************************************************************************)
(* Expansion of the cached period of an alphanumeric sequence              *)
(***************************************************************************)
\* an instant was appended to a sequence whose bounding box is its period
AlphaExpandStep ==
  /\ talpha_type(seq.temptype)
  /\ seq'.count = seq.count + 1

\* C14: tsequence_expand_bbox on an alphanumeric sequence sets the upper bound
\* of the cached period to the timestamp of the new instant and makes it
\* inclusive, and leaves the lower bound, which is the timestamp of the first
\* instant, and its inclusivity as they were before the call.
C14_AlphaExpandFrame ==
  [][AlphaExpandStep =>
       /\ seq'.bbox.upper = seq'.instants[seq'.count].t
       /\ seq'.bbox.upper_inc
       /\ seq'.bbox.lower = seq.bbox.lower
       /\ seq'.bbox.lower = seq.instants[1].t
       /\ seq'.bbox.lower_inc = seq.bbox.lower_inc]_vars

\* an alphanumeric sequence with an exclusive lower bound was expanded: its
\* period ends, inclusive, at the instant appended last
C14_Witness ==
  /\ pc = "seq" /\ talpha_type(seq.temptype)
  /\ seq.count = 3
  /\ ~seq.bbox.lower_inc /\ seq.bbox.upper_inc
  /\ seq.bbox.lower = seq.instants[1].t
  /\ seq.bbox.upper = seq.instants[3].t

(***************************************************************************)
(* Equality and ordering of spatial boxes (SpecCmp)                        *)
(***************************************************************************)
\* the call at hand compared two spatial boxes and has returned
SpatialCmpDone ==
  pc = "done" /\ cmpargs # Idle /\ tspatial_type(cmpargs.temptype)

\* C15: on two spatial boxes temporal_bbox_eq returns true exactly when
\* temporal_bbox_cmp returns 0 on the same two boxes.
C15_SpatialEqIsCmpZero ==
  SpatialCmpDone =>
    /\ cmpres.fn = "eq" =>
         (cmpres.eq <=>
            temporal_bbox_cmp(cmpargs.box1, cmpargs.box2,
                              cmpargs.temptype).cmp = 0)
    /\ cmpres.fn = "cmp" =>
         ((cmpres.cmp = 0) <=>
            temporal_bbox_eq(cmpargs.box1, cmpargs.box2,
                             cmpargs.temptype).eq)

\* temporal_bbox_eq returned true on two spatial boxes that differ in the
\* least-significant bits of a coordinate
C15_Witness ==
  /\ SpatialCmpDone
  /\ cmpres.fn = "eq" /\ cmpres.eq
  /\ cmpargs.box1 # cmpargs.box2
  /\ cmpargs.box1.xlsb # cmpargs.box2.xlsb

(***************************************************************************)
(* Bounds of the output array (Spec, SpecSet)                              *)
(***************************************************************************)
\* the indexes of the output array that the call wrote (first index 0)
WrittenIndexes == { k - 1 : k \in 1..Len(out.result) }

\* C16: every index that tnumberseq_tboxes, tnumberseqset_tboxes and their
\* iterators write is smaller than the number of TBox slots allocated for the
\* output array, whatever the temporal number and whatever max_count.
C16_WritesInsideArray ==
  (pc # "start" /\ temp # Idle /\ out.ret # "NULL") =>
    \A k \in WrittenIndexes : k < out.nalloc

====
